---- MODULE Spec2Model ----
\* A model of the screen capture engine of luo-capture-rs (src/src/capture.rs):
\* ScreenCapture with its accelerated (DXGI) and fallback (GDI) backends,
\* lazy initialization, region validation, region extraction and PNG save,
\* and of the async facade that examples/usage.rs calls (init_async), which
\* shares one engine among concurrent callers.
EXTENDS Integers, Sequences, FiniteSets, TLC

\* ------------------------------------------------------------------ bounds

\* Width in bits of the machine words that stand for i32 / u32. The casts of
\* the region check are modelled modulo 2^Bits exactly as the code computes
\* them modulo 2^32.
Bits == 6

\* The primary display, in pixels.
ScreenW == 2
ScreenH == 2

\* The number of concurrent callers of the async facade.
NumCallers == 2

\* ------------------------------------------------------------------ words

Modulus == 2 ^ Bits
I32Max == (Modulus \div 2) - 1
I32Min == 0 - (Modulus \div 2)
U32Max == Modulus - 1

\* `v as i32` for a u32 v: reinterpretation of the same bits.
AsI32(v) == IF v > I32Max THEN v - Modulus ELSE v

\* `v as u32` for an i32 v: reinterpretation of the same bits.
AsU32(v) == v % Modulus

\* The value of an i32 addition when it does not trap: two's complement wrap.
WrapI32(s) == AsI32(s % Modulus)

\* Whether the exact sum leaves the i32 range.
OverflowsI32(s) == s > I32Max \/ s < I32Min

Min(a, b) == IF a < b THEN a ELSE b

Max(a, b) == IF a > b THEN a ELSE b

\* usize::saturating_sub
SaturatingSub(a, b) == IF a > b THEN a - b ELSE 0

\* ------------------------------------------------------------------ pixels

\* let bytes_per_pixel = 4
BytesPerPixel == 4

\* The screen content: pixel (r, c) has four channel values, all distinct
\* from each other, from every other pixel's and from 0, so that the source
\* of each output byte can be read off its value.
ChannelValue(r, c, ch) == (r * ScreenW + c) * 4 + ch + 1

ScreenR(r, c) == ChannelValue(r, c, 0)

ScreenG(r, c) == ChannelValue(r, c, 1)

ScreenB(r, c) == ChannelValue(r, c, 2)

ScreenA(r, c) == ChannelValue(r, c, 3)

\* The content of the alignment padding at the end of a mapped texture row.
PadByte == 255

\* ------------------------------------------------------------------ regions

\* CaptureRegion { x: i32, y: i32, width: u32, height: u32 }
CaptureRegion(x, y, w, h) == [x |-> x, y |-> y, width |-> w, height |-> h]

\* The regions asked for. Horizontally: a left edge and a width, among
\* them widths beyond the i32 range and sums beyond the i32 and u32 ranges;
\* vertically likewise.
RegionXs == { 0 - 1, 0, 1 }

RegionYs == { 0 - 1, 0, 1 }

RegionWidths == { 0, ScreenW, I32Max, I32Max + 1, U32Max }

RegionHeights == { 0, ScreenH, U32Max }

\* Every horizontal placement over the full height, every vertical placement
\* over the full width, and the single pixels in the corners.
Regions ==
    { CaptureRegion(x, 0, w, ScreenH) : x \in RegionXs, w \in RegionWidths }
        \cup { CaptureRegion(0, y, ScreenW, h) : y \in RegionYs, h \in RegionHeights }
        \cup { CaptureRegion(0, 0, 1, 1), CaptureRegion(ScreenW - 1, ScreenH - 1, 1, 1) }

\* ------------------------------------------------------------------ engine

\* ScreenCapture::new(): the engine's fields. dxgi_resources is TRUE for
\* Some(DxgiResources) and FALSE for None.
new ==
    [ is_initialized |-> FALSE,
      width |-> 0,
      height |-> 0,
      dxgi_resources |-> FALSE,
      use_gdi_fallback |-> FALSE ]

\* The backend calls one engine call makes, counted: initialize_dxgi,
\* initialize_gdi_dimensions, AcquireNextFrame (and those that succeeded),
\* ReleaseFrame, capture_frame returning Ok, capture_with_gdi (and those that
\* returned Ok), and the PNG save.
NoCalls ==
    [ dxgi_inits |-> 0, gdi_queries |-> 0, acquires |-> 0, acquired |-> 0,
      releases |-> 0, frames |-> 0, blits |-> 0, blitted |-> 0, saves |-> 0 ]

\* What the operating system answers during one call: whether the DXGI
\* device, adapter, output and duplication can be created; how far a frame
\* acquisition gets, with the row pitch and the height of the texture it
\* maps; how far the GDI blit gets; whether the PNG encoder succeeds.
FrameOutcomes ==
    { "acquire_failed", "no_desktop_resource", "cast_failed",
      "create_texture_failed", "no_staging_texture", "map_failed", "ok" }

GdiOutcomes ==
    { "no_screen_dc", "no_memory_dc", "no_bitmap", "bitblt_failed",
      "getdibits_failed", "ok" }

RowPitches == { ScreenW * BytesPerPixel, ScreenW * BytesPerPixel + 4 }

TextureHeights == { ScreenH - 1, ScreenH }

\* CaptureResult values.
Ok(data, w, h) ==
    [ tag |-> "Ok", msg |-> "", data |-> data, width |-> w, height |-> h ]

Err(tag, msg) ==
    [ tag |-> tag, msg |-> msg, data |-> << >>, width |-> 0, height |-> 0 ]

\* A panic unwinding out of the call (not a return).
Panic(msg) == Err("Panic", msg)

\* initialize_dxgi: on success the display size is cached and the resources
\* are handed back; any failing step returns InitializationError before the
\* size is written.
initialize_dxgi(e, dxgi_ok) ==
    IF dxgi_ok
    THEN [ ok |-> TRUE, e |-> [e EXCEPT !.width = ScreenW, !.height = ScreenH] ]
    ELSE [ ok |-> FALSE, e |-> e ]

\* initialize_gdi_dimensions leaving the cached size as it is.
initialize_gdi_dimensions_skipped(e) == e

\* initialize_gdi_dimensions: GetSystemMetrics(SM_CXSCREEN / SM_CYSCREEN).
initialize_gdi_dimensions(e) ==
    [e EXCEPT !.width = ScreenW, !.height = ScreenH]

\* The body of ScreenCapture::init after its early return: DXGI first, the
\* GDI screen size when DXGI fails.
init_backends(e, dxgi_ok) ==
    LET r == initialize_dxgi(e, dxgi_ok) IN
    IF r.ok
    THEN [ e |-> [r.e EXCEPT !.dxgi_resources = TRUE,
                             !.use_gdi_fallback = FALSE,
                             !.is_initialized = TRUE],
           calls |-> [NoCalls EXCEPT !.dxgi_inits = 1] ]
    ELSE [ e |-> [initialize_gdi_dimensions([r.e EXCEPT !.use_gdi_fallback = TRUE])
                    EXCEPT !.is_initialized = TRUE],
           calls |-> [NoCalls EXCEPT !.dxgi_inits = 1, !.gdi_queries = 1] ]

\* init without its early return on an initialized engine.
init_without_guard(e, dxgi_ok) == init_backends(e, dxgi_ok)

\* ScreenCapture::init: always returns Ok (initialize_gdi_dimensions cannot
\* fail), so only the engine and the calls made are returned.
init(e, dxgi_ok) ==
    IF e.is_initialized
    THEN [ e |-> e, calls |-> NoCalls ]
    ELSE init_backends(e, dxgi_ok)

\* ensure_dxgi_resources re-initializing whenever no resources are held,
\* in fallback mode too.
ensure_ignoring_fallback(e, dxgi_ok) ==
    IF ~e.dxgi_resources
    THEN init([e EXCEPT !.is_initialized = FALSE], dxgi_ok)
    ELSE [ e |-> e, calls |-> NoCalls ]

\* ensure_dxgi_resources
ensure_dxgi_resources(e, dxgi_ok) ==
    IF ~e.dxgi_resources /\ ~e.use_gdi_fallback
    THEN init([e EXCEPT !.is_initialized = FALSE], dxgi_ok)
    ELSE [ e |-> e, calls |-> NoCalls ]

\* ------------------------------------------------------------------ fallback backend

\* The bytes GetDIBits writes for a 32-bit top-down BI_RGB bitmap blitted
\* from the screen at (region.x, region.y): B, G, R, A per pixel, rows of
\* region.width pixels without padding; pixels off the screen stay 0.
GdiBits(region) ==
    [ i \in 1 .. (region.width * region.height * 4) |->
        LET p == (i - 1) \div 4
            ch == (i - 1) % 4
            r == region.y + (p \div region.width)
            c == region.x + (p % region.width)
        IN  IF r >= ScreenH \/ c >= ScreenW THEN 0
            ELSE CASE ch = 0 -> ScreenB(r, c)
                   [] ch = 1 -> ScreenG(r, c)
                   [] ch = 2 -> ScreenR(r, c)
                   [] OTHER  -> ScreenA(r, c) ]

\* for chunk in data.chunks_exact_mut(4): bytes 0 and 2 of each whole chunk
\* are exchanged; a trailing partial chunk is left alone.
SwapRedBlue(data) ==
    [ i \in 1 .. Len(data) |->
        LET k == (i - 1) % 4
            whole == ((i - 1) \div 4) * 4 + 4 <= Len(data)
        IN  IF whole /\ k = 0 THEN data[i + 2]
            ELSE IF whole /\ k = 2 THEN data[i - 2]
            ELSE data[i] ]

\* A call on a GDI handle made by capture_with_gdi, and whether it
\* succeeded. The results of the releasing calls are ignored (let _ =).
GdiCall(call, ok) == [ call |-> call, ok |-> ok ]

\* The cleanup that leaves the bitmap undeleted.
GdiCleanup_without_DeleteObject ==
    << GdiCall("SelectObject(old_bitmap)", TRUE),
       GdiCall("DeleteDC", TRUE), GdiCall("ReleaseDC", TRUE) >>

\* The cleanup after a selected bitmap, after a failed BitBlt and after
\* GetDIBits: SelectObject(memory_dc, old_bitmap),
\* DeleteObject(bitmap), DeleteDC(memory_dc), ReleaseDC(screen_dc).
GdiCleanup ==
    << GdiCall("SelectObject(old_bitmap)", TRUE), GdiCall("DeleteObject", TRUE),
       GdiCall("DeleteDC", TRUE), GdiCall("ReleaseDC", TRUE) >>

\* The handle calls of capture_with_gdi along each of its exit paths, in
\* program order. After GetDIBits the cleanup precedes the test of
\* bytes_copied, so the failed and the successful read release alike.
GdiHandleCalls(gdi) ==
    LET got_dc == << GdiCall("GetDC", TRUE) >>
        got_memory_dc == got_dc \o << GdiCall("CreateCompatibleDC", TRUE) >>
        selected == got_memory_dc
                      \o << GdiCall("CreateCompatibleBitmap", TRUE),
                            GdiCall("SelectObject(bitmap)", TRUE) >>
    IN
    CASE gdi = "no_screen_dc" ->
           << GdiCall("GetDC", FALSE) >>
      [] gdi = "no_memory_dc" ->
           got_dc \o << GdiCall("CreateCompatibleDC", FALSE),
                        GdiCall("ReleaseDC", TRUE) >>
      [] gdi = "no_bitmap" ->
           got_memory_dc \o << GdiCall("CreateCompatibleBitmap", FALSE),
                               GdiCall("DeleteDC", TRUE),
                               GdiCall("ReleaseDC", TRUE) >>
      [] gdi = "bitblt_failed" ->
           selected \o << GdiCall("BitBlt", FALSE) >> \o GdiCleanup
      [] gdi = "getdibits_failed" ->
           selected \o << GdiCall("BitBlt", TRUE), GdiCall("GetDIBits", FALSE) >>
                    \o GdiCleanup
      [] OTHER ->
           selected \o << GdiCall("BitBlt", TRUE), GdiCall("GetDIBits", TRUE) >>
                    \o GdiCleanup

\* capture_with_gdi: each failing step returns CaptureError; on success the
\* buffer of region.width * region.height * 4 bytes is converted from BGRA
\* to RGBA. handles are the calls made on the GDI handles.
capture_with_gdi(region, gdi) ==
    LET failed(msg) == [ ok |-> FALSE, msg |-> msg, data |-> << >>,
                         handles |-> GdiHandleCalls(gdi) ]
    IN
    CASE gdi = "no_screen_dc"     -> failed("GetDC")
      [] gdi = "no_memory_dc"     -> failed("CreateCompatibleDC")
      [] gdi = "no_bitmap"        -> failed("CreateCompatibleBitmap")
      [] gdi = "bitblt_failed"    -> failed("BitBlt")
      [] gdi = "getdibits_failed" -> failed("GetDIBits")
      [] OTHER                    -> [ ok |-> TRUE, msg |-> "",
                                       data |-> SwapRedBlue(GdiBits(region)),
                                       handles |-> GdiHandleCalls(gdi) ]

\* ------------------------------------------------------------------ accelerated backend

\* The memory Map exposes for a desktop texture of ScreenW x tex_height
\* pixels in DXGI_FORMAT_B8G8R8A8_UNORM: tex_height rows of row_pitch bytes,
\* each B, G, R, A per pixel followed by alignment padding.
MappedTexture(row_pitch, tex_height) ==
    [ i \in 1 .. (tex_height * row_pitch) |->
        LET r == (i - 1) \div row_pitch
            off == (i - 1) % row_pitch
            c == off \div 4
            ch == off % 4
        IN  IF c >= ScreenW THEN PadByte
            ELSE CASE ch = 0 -> ScreenB(r, c)
                   [] ch = 1 -> ScreenG(r, c)
                   [] ch = 2 -> ScreenR(r, c)
                   [] OTHER  -> ScreenA(r, c) ]

\* A frame acquisition: its outcome, and the layout of the texture mapped.
Frame(outcome, row_pitch, tex_height) ==
    [ outcome |-> outcome, row_pitch |-> row_pitch, tex_height |-> tex_height ]

\* capture_frame: the steps after AcquireNextFrame, each of which may fail.
\* acquired and released count the AcquireNextFrame calls that succeeded and
\* the ReleaseFrame calls made.
capture_frame(e, frame) ==
    LET fail(msg, acq, rel) ==
            [ ok |-> FALSE, msg |-> msg, data |-> << >>,
              acquires |-> 1, acquired |-> acq, released |-> rel ]
    IN
    IF ~e.dxgi_resources
    THEN [ ok |-> FALSE, msg |-> "dxgi_resources is None", data |-> << >>,
           acquires |-> 0, acquired |-> 0, released |-> 0 ]
    ELSE CASE frame.outcome = "acquire_failed"        -> fail("AcquireNextFrame", 0, 0)
           [] frame.outcome = "no_desktop_resource"   -> fail("desktop_resource is None", 1, 0)
           [] frame.outcome = "cast_failed"           -> fail("cast", 1, 0)
           [] frame.outcome = "create_texture_failed" -> fail("CreateTexture2D", 1, 1)
           [] frame.outcome = "no_staging_texture"    -> fail("staging_texture is None", 1, 1)
           [] frame.outcome = "map_failed"            -> fail("Map", 1, 1)
           [] OTHER ->
                [ ok |-> TRUE, msg |-> "",
                  data |-> MappedTexture(frame.row_pitch, frame.tex_height),
                  acquires |-> 1, acquired |-> 1, released |-> 1 ]

\* ------------------------------------------------------------------ capture

\* `(pos + size as i32) as u32`: the i32 addition panics on overflow in a
\* build with overflow checks and wraps in a build without.
RegionEnd(pos, size, overflow_checks) ==
    LET sum == pos + AsI32(size) IN
    IF OverflowsI32(sum)
    THEN IF overflow_checks
         THEN [ panic |-> TRUE, value |-> 0 ]
         ELSE [ panic |-> FALSE, value |-> AsU32(WrapI32(sum)) ]
    ELSE [ panic |-> FALSE, value |-> AsU32(sum) ]

\* The region checks without the test of the signs and the empty sizes.
validate_bounds_only(e, region, overflow_checks) ==
    LET right == RegionEnd(region.x, region.width, overflow_checks) IN
    IF right.panic THEN "panic"
    ELSE IF right.value > e.width THEN "invalid"
    ELSE LET bottom == RegionEnd(region.y, region.height, overflow_checks) IN
         IF bottom.panic THEN "panic"
         ELSE IF bottom.value > e.height THEN "invalid"
         ELSE "ok"

\* The two region checks of capture: "invalid" for InvalidRegion, "ok" to go
\* on, "panic" for an arithmetic overflow panic. The second test of the ||
\* is evaluated only when the first is false.
validate(e, region, overflow_checks) ==
    IF region.x < 0 \/ region.y < 0 \/ region.width = 0 \/ region.height = 0
    THEN "invalid"
    ELSE LET right == RegionEnd(region.x, region.width, overflow_checks) IN
         IF right.panic THEN "panic"
         ELSE IF right.value > e.width THEN "invalid"
         ELSE LET bottom == RegionEnd(region.y, region.height, overflow_checks) IN
              IF bottom.panic THEN "panic"
              ELSE IF bottom.value > e.height THEN "invalid"
              ELSE "ok"

Zeros(n) == [ i \in 1 .. n |-> 0 ]

\* The row loop of the region extraction, from row y on, with the bytes
\* collected so far. A slice that ends beyond the buffer panics. The usize
\* products are exact and Vec::with_capacity is granted: a region passes
\* the checks with a side near 2^32 only by wrapping, and what then becomes
\* of its allocation is left out.
RECURSIVE extract_rows(_, _, _, _, _)
extract_rows(full, e, region, y, region_data) ==
    LET start_x == Max(region.x, 0)
        start_y == Max(region.y, 0)
        src_y == start_y + y
        src_row_start == src_y * e.width * BytesPerPixel
        src_start == src_row_start + start_x * BytesPerPixel
        src_end == Min(src_start + region.width * BytesPerPixel,
                       src_row_start + e.width * BytesPerPixel)
        copy_len == SaturatingSub(src_end, src_start)
        remaining == region.width * BytesPerPixel - copy_len
    IN  IF y >= region.height \/ src_y >= e.height
        THEN [ panic |-> FALSE, data |-> region_data ]
        ELSE IF src_start < Len(full)
             THEN IF src_start + copy_len > Len(full)
                  THEN [ panic |-> TRUE, data |-> << >> ]
                  ELSE extract_rows(full, e, region, y + 1,
                           region_data
                             \o SubSeq(full, src_start + 1, src_start + copy_len)
                             \o Zeros(remaining))
             ELSE extract_rows(full, e, region, y + 1, region_data)

\* Region extraction: the sub-rectangle of the full-frame buffer.
extract(full, e, region) == extract_rows(full, e, region, 0, << >>)

\* save_path: None or Some(path).
SavePaths == { "none", "some" }

\* The end of capture: the optional PNG save, then the CaptureData.
\* ImageBuffer::from_raw refuses a buffer shorter than width * height * 4.
finish(region, region_data, save, png_ok) ==
    IF save = "none"
    THEN [ result |-> Ok(region_data, region.width, region.height),
           saves |-> 0, saved |-> << >> ]
    ELSE IF Len(region_data) < region.width * region.height * 4
         THEN [ result |-> Err("CaptureError", "ImageBuffer::from_raw"),
                saves |-> 0, saved |-> << >> ]
         ELSE IF ~png_ok
              THEN [ result |-> Err("CaptureError", "save"),
                     saves |-> 1, saved |-> << >> ]
              ELSE [ result |-> Ok(region_data, region.width, region.height),
                     saves |-> 1, saved |-> region_data ]

\* What the operating system answers during one capture call.
Env(dxgi_ok, frame, gdi, png_ok, overflow_checks) ==
    [ dxgi_ok |-> dxgi_ok, frame |-> frame, gdi |-> gdi, png_ok |-> png_ok,
      overflow_checks |-> overflow_checks ]

\* The cached display as a region: CaptureRegion { x: 0, y: 0, width:
\* self.width, height: self.height }.
FullScreen(e) == CaptureRegion(0, 0, e.width, e.height)

\* The full-frame buffer without the fallback after a failed acquisition.
full_screen_data_no_retry(e, env) ==
    IF e.use_gdi_fallback
    THEN LET g == capture_with_gdi(FullScreen(e), env.gdi) IN
         [ e |-> e, ok |-> g.ok, msg |-> g.msg, data |-> g.data,
           row_pitch |-> e.width * BytesPerPixel, handles |-> g.handles,
           calls |-> [NoCalls EXCEPT !.blits = 1,
                                     !.blitted = IF g.ok THEN 1 ELSE 0] ]
    ELSE LET f == capture_frame(e, env.frame) IN
         [ e |-> e, ok |-> f.ok, msg |-> f.msg, data |-> f.data,
           row_pitch |-> env.frame.row_pitch, handles |-> << >>,
           calls |-> [NoCalls EXCEPT !.acquires = f.acquires,
                                     !.acquired = f.acquired,
                                     !.releases = f.released,
                                     !.frames = IF f.ok THEN 1 ELSE 0] ]

\* The full-frame buffer of capture: GDI in fallback mode; otherwise DXGI,
\* and GDI after a failed DXGI acquisition, with use_gdi_fallback set.
\* row_pitch is the distance in bytes between the rows of the buffer as the
\* backend laid it out: mapped_resource.RowPitch for a mapped texture,
\* width * 4 for the bits of GetDIBits; handles are the GDI handle calls.
full_screen_data(e, env) ==
    IF e.use_gdi_fallback
    THEN LET g == capture_with_gdi(FullScreen(e), env.gdi) IN
         [ e |-> e, ok |-> g.ok, msg |-> g.msg, data |-> g.data,
           row_pitch |-> e.width * BytesPerPixel, handles |-> g.handles,
           calls |-> [NoCalls EXCEPT !.blits = 1,
                                     !.blitted = IF g.ok THEN 1 ELSE 0] ]
    ELSE LET f == capture_frame(e, env.frame)
             fcalls == [NoCalls EXCEPT !.acquires = f.acquires,
                                       !.acquired = f.acquired,
                                       !.releases = f.released,
                                       !.frames = IF f.ok THEN 1 ELSE 0]
         IN
         IF f.ok
         THEN [ e |-> e, ok |-> TRUE, msg |-> "", data |-> f.data,
                row_pitch |-> env.frame.row_pitch, handles |-> << >>,
                calls |-> fcalls ]
         ELSE LET e2 == [e EXCEPT !.use_gdi_fallback = TRUE]
                  g == capture_with_gdi(FullScreen(e2), env.gdi)
              IN  [ e |-> e2, ok |-> g.ok, msg |-> g.msg, data |-> g.data,
                    row_pitch |-> e2.width * BytesPerPixel,
                    handles |-> g.handles,
                    calls |-> [fcalls EXCEPT !.blits = 1,
                                             !.blitted = IF g.ok THEN 1 ELSE 0] ]

\* What a capture call saw of its backend: the full-frame buffer, the row
\* pitch of its layout and the calls made on GDI handles.
Backend(full, row_pitch, handles) ==
    [ full |-> full, row_pitch |-> row_pitch, handles |-> handles ]

NoBackend == Backend(<< >>, 0, << >>)

\* The backend as full_screen_data reports it.
BackendOf(fs) == Backend(fs.data, fs.row_pitch, fs.handles)

\* The calls of two steps of one engine call, added up.
AddCalls(a, b) == [ k \in DOMAIN a |-> a[k] + b[k] ]

\* capture from the region extraction on, given the full-frame buffer fs
\* and the calls made so far.
capture_region(fs, calls, region, save, env) ==
    LET x == extract(fs.data, fs.e, region) IN
    IF x.panic
    THEN [ e |-> fs.e, result |-> Panic("range end index out of range"),
           calls |-> calls, saved |-> << >>, backend |-> BackendOf(fs) ]
    ELSE LET fin == finish(region, x.data, save, env.png_ok) IN
         [ e |-> fs.e, result |-> fin.result,
           calls |-> [calls EXCEPT !.saves = fin.saves],
           saved |-> fin.saved, backend |-> BackendOf(fs) ]

\* capture from the region checks on, given the engine e1 and the calls
\* made by ensure_dxgi_resources.
capture_checked(e1, calls, region, save, env) ==
    LET v == validate(e1, region, env.overflow_checks) IN
    IF v = "invalid"
    THEN [ e |-> e1, result |-> Err("InvalidRegion", ""), calls |-> calls,
           saved |-> << >>, backend |-> NoBackend ]
    ELSE IF v = "panic"
    THEN [ e |-> e1, result |-> Panic("attempt to add with overflow"),
           calls |-> calls, saved |-> << >>, backend |-> NoBackend ]
    ELSE
      LET fs == full_screen_data(e1, env) IN
      IF ~fs.ok
      THEN [ e |-> fs.e, result |-> Err("CaptureError", fs.msg),
             calls |-> AddCalls(calls, fs.calls), saved |-> << >>,
             backend |-> BackendOf(fs) ]
      ELSE capture_region(fs, AddCalls(calls, fs.calls), region, save, env)

\* capture without the call of ensure_dxgi_resources.
capture_without_ensure(e, region, save, env) ==
    capture_checked(e, NoCalls, region, save, env)

\* ScreenCapture::capture: the engine after the call, the result (or the
\* panic), the backend calls made, the buffer given to the PNG encoder and
\* what the call saw of its backend.
capture(e, region, save, env) ==
    LET en == ensure_dxgi_resources(e, env.dxgi_ok) IN
    capture_checked(en.e, en.calls, region, save, env)

\* ------------------------------------------------------------------ state

VARIABLES
    is_initialized,    \* ScreenCapture.is_initialized
    width,             \* ScreenCapture.width
    height,            \* ScreenCapture.height
    dxgi_resources,    \* ScreenCapture.dxgi_resources is Some
    use_gdi_fallback,  \* ScreenCapture.use_gdi_fallback
    overflow_checks,   \* whether the build traps integer overflow
    last,              \* the last call made on the engine and what it returned
    lock,              \* async facade: the caller holding the engine's lock, or 0
    poisoned,          \* async facade: an engine call panicked under the lock
    tasks              \* async facade: each caller's call and how far it has got

vars ==
    << is_initialized, width, height, dxgi_resources, use_gdi_fallback,
       overflow_checks, last, lock, poisoned, tasks >>

\* The state of the async facade.
facade == << lock, poisoned, tasks >>

\* The engine's fields as one record.
self ==
    [ is_initialized |-> is_initialized,
      width |-> width,
      height |-> height,
      dxgi_resources |-> dxgi_resources,
      use_gdi_fallback |-> use_gdi_fallback ]

NoRegion == CaptureRegion(0, 0, 0, 0)

\* The record of a call: the operation, its arguments, the engine before
\* it, its result, the backend calls it made, the bytes it had encoded and
\* what it saw of its backend.
Call(op, region, save, pre, result, calls, saved, backend) ==
    [ op |-> op, region |-> region, save |-> save, pre |-> pre,
      result |-> result, calls |-> calls, saved |-> saved,
      backend |-> backend ]

\* The engine's fields after a call.
Becomes(e) ==
    /\ is_initialized' = e.is_initialized
    /\ width' = e.width
    /\ height' = e.height
    /\ dxgi_resources' = e.dxgi_resources
    /\ use_gdi_fallback' = e.use_gdi_fallback

\* The callers of the async facade.
Callers == 1 .. NumCallers

\* A caller's call on the facade: how far it has got (pc), the operation
\* and the region asked for, the engine the worker started on (pre), the
\* result handed back and the full-frame buffer the call worked from.
Task(pc, op, region, pre, result, full) ==
    [ pc |-> pc, op |-> op, region |-> region, pre |-> pre,
      result |-> result, full |-> full ]

\* A caller that has not called yet.
NoTask == Task("idle", "none", NoRegion, new, Ok(<< >>, 0, 0), << >>)

\* The facade around a new engine: the lock free, nobody calling.
FacadeInit ==
    /\ lock = 0
    /\ poisoned = FALSE
    /\ tasks = [ c \in Callers |-> NoTask ]

Init ==
    /\ FacadeInit
    /\ is_initialized = new.is_initialized
    /\ width = new.width
    /\ height = new.height
    /\ dxgi_resources = new.dxgi_resources
    /\ use_gdi_fallback = new.use_gdi_fallback
    /\ overflow_checks \in BOOLEAN
    /\ last = Call("new", NoRegion, "none", new, Ok(<< >>, 0, 0), NoCalls, << >>,
                   NoBackend)

\* The frames AcquireNextFrame and Map can answer with.
Frames ==
    { Frame(o, ScreenW * BytesPerPixel, ScreenH) : o \in FrameOutcomes \ {"ok"} }
        \cup { Frame("ok", p, h) : p \in RowPitches, h \in TextureHeights }

\* The operating system answers only the calls that are made: DXGI
\* initialization when the engine holds no backend, a frame when a valid
\* region is captured in accelerated mode, a blit when it is captured in
\* fallback mode or the frame failed, the PNG encoder when a buffer of the
\* right size is to be saved.
DxgiAnswers(e) ==
    IF (~e.dxgi_resources /\ ~e.use_gdi_fallback) THEN BOOLEAN ELSE {TRUE}

FrameAnswers(e, region, dxgi_ok) ==
    LET e1 == ensure_dxgi_resources(e, dxgi_ok).e IN
    IF validate(e1, region, overflow_checks) = "ok" /\ ~e1.use_gdi_fallback
    THEN Frames
    ELSE { Frame("ok", ScreenW * BytesPerPixel, ScreenH) }

GdiAnswers(e, region, dxgi_ok, frame) ==
    LET e1 == ensure_dxgi_resources(e, dxgi_ok).e IN
    IF /\ validate(e1, region, overflow_checks) = "ok"
       /\ (e1.use_gdi_fallback \/ ~capture_frame(e1, frame).ok)
    THEN GdiOutcomes
    ELSE { "ok" }

PngAnswers(saves) == IF saves = 1 THEN BOOLEAN ELSE {TRUE}

\* A call of ScreenCapture::init.
InitCall ==
    \E dxgi_ok \in (IF is_initialized THEN {TRUE} ELSE BOOLEAN) :
      \E r \in { init(self, dxgi_ok) } :
        /\ Becomes(r.e)
        /\ last' = Call("init", NoRegion, "none", self, Ok(<< >>, 0, 0),
                         r.calls, << >>, NoBackend)
        /\ UNCHANGED << overflow_checks, facade >>

\* A call of ScreenCapture::capture.
CaptureCall ==
    \E region \in Regions, save \in SavePaths :
      \E dxgi_ok \in DxgiAnswers(self) :
        \E frame \in FrameAnswers(self, region, dxgi_ok) :
          \E gdi \in GdiAnswers(self, region, dxgi_ok, frame) :
            \E saved \in { capture(self, region, save,
                                   Env(dxgi_ok, frame, gdi, TRUE, overflow_checks)) } :
              \E png_ok \in PngAnswers(saved.calls.saves) :
                \E r \in { IF png_ok THEN saved
                           ELSE capture(self, region, save,
                                        Env(dxgi_ok, frame, gdi, FALSE, overflow_checks)) } :
                  /\ Becomes(r.e)
                  /\ last' = Call("capture", region, save, self, r.result,
                                   r.calls, r.saved, r.backend)
                  /\ UNCHANGED << overflow_checks, facade >>

Next == InitCall \/ CaptureCall

Spec == Init /\ [][Next]_vars

\* ------------------------------------------------------------------ async facade

\* The regions the concurrent callers ask for: the whole display and its
\* last pixel.
AsyncRegions ==
    { CaptureRegion(0, 0, ScreenW, ScreenH),
      CaptureRegion(ScreenW - 1, ScreenH - 1, 1, 1) }

\* The operations of the facade.
AsyncOps == { "init", "capture" }

\* The frames and the blits the operating system answers the facade's
\* engine calls with: a whole frame, a frame one row short with padded
\* rows, a failed acquisition; a blit, a failed blit.
AsyncFrames ==
    { Frame("ok", ScreenW * BytesPerPixel, ScreenH),
      Frame("ok", ScreenW * BytesPerPixel + 4, ScreenH - 1),
      Frame("acquire_failed", ScreenW * BytesPerPixel, ScreenH) }

AsyncGdi == { "ok", "bitblt_failed" }

\* The engine call of a facade operation on engine e: the engine after it,
\* its result and what it saw of its backend.
engine_call(op, e, region, env) ==
    IF op = "init"
    THEN LET r == init(e, env.dxgi_ok) IN
         [ e |-> r.e, result |-> Ok(<< >>, 0, 0), calls |-> r.calls,
           saved |-> << >>, backend |-> NoBackend ]
    ELSE capture(e, region, "none", env)

\* The lock is never found held.
LockNeverHeld == TRUE

\* The lock is free.
LockFree == lock = 0

\* A caller calls init() or capture(region, None) on the facade and waits
\* for the lock.
AsyncCall(c) ==
    /\ tasks[c].pc = "idle"
    /\ \E op \in AsyncOps :
         \E region \in (IF op = "init" THEN { NoRegion } ELSE AsyncRegions) :
           tasks' = [tasks EXCEPT ![c] = Task("queued", op, region, new,
                                              Ok(<< >>, 0, 0), << >>)]
    /\ UNCHANGED << is_initialized, width, height, dxgi_resources,
                    use_gdi_fallback, overflow_checks, last, lock, poisoned >>

\* The caller acquires the lock.
LockAcquire(c) ==
    /\ tasks[c].pc = "queued"
    /\ LockFree
    /\ ~poisoned
    /\ lock' = c
    /\ tasks' = [tasks EXCEPT ![c].pc = "locked"]
    /\ UNCHANGED << is_initialized, width, height, dxgi_resources,
                    use_gdi_fallback, overflow_checks, last, poisoned >>

\* The lock is poisoned: the acquisition fails and the call returns
\* ResourceError without an engine call.
LockPoisoned(c) ==
    /\ tasks[c].pc = "queued"
    /\ LockFree
    /\ poisoned
    /\ tasks' = [tasks EXCEPT ![c].pc = "done",
                              ![c].result = Err("ResourceError", "lock")]
    /\ UNCHANGED << is_initialized, width, height, dxgi_resources,
                    use_gdi_fallback, overflow_checks, last, lock, poisoned >>

\* The worker starts the engine call on the engine as it finds it.
WorkerStart(c) ==
    /\ tasks[c].pc = "locked"
    /\ tasks' = [tasks EXCEPT ![c].pc = "running", ![c].pre = self]
    /\ UNCHANGED << is_initialized, width, height, dxgi_resources,
                    use_gdi_fallback, overflow_checks, last, lock, poisoned >>

\* The worker's engine call ends: the engine is as the call leaves it, and
\* a panic of the call poisons the lock.
WorkerFinish(c) ==
    /\ tasks[c].pc = "running"
    /\ \E dxgi_ok \in DxgiAnswers(self), frame \in AsyncFrames, gdi \in AsyncGdi :
         \E r \in { engine_call(tasks[c].op, self, tasks[c].region,
                                 Env(dxgi_ok, frame, gdi, TRUE, overflow_checks)) } :
           /\ Becomes(r.e)
           /\ last' = Call(tasks[c].op, tasks[c].region, "none", self,
                            r.result, r.calls, r.saved, r.backend)
           /\ poisoned' = (poisoned \/ r.result.tag = "Panic")
           /\ tasks' = [tasks EXCEPT ![c].pc = "finished",
                                     ![c].result = r.result,
                                     ![c].full = r.backend.full]
    /\ UNCHANGED << overflow_checks, lock >>

\* The lock is released and the result handed to the caller.
LockRelease(c) ==
    /\ tasks[c].pc = "finished"
    /\ lock' = 0
    /\ tasks' = [tasks EXCEPT ![c].pc = "done"]
    /\ UNCHANGED << is_initialized, width, height, dxgi_resources,
                    use_gdi_fallback, overflow_checks, last, poisoned >>

\* The steps of one caller on the calling context.
CallerStep(c) ==
    \/ AsyncCall(c)
    \/ LockAcquire(c)
    \/ LockPoisoned(c)
    \/ WorkerStart(c)
    \/ LockRelease(c)

\* The steps of one caller.
AsyncStep(c) == CallerStep(c) \/ WorkerFinish(c)

AsyncNext == \E c \in Callers : AsyncStep(c)

\* The caller's engine call is in progress on the worker.
InEngine(c) == tasks[c].pc = "running"

\* The callers are tasks of the runtime, scheduled while they can take a
\* step. The worker is a thread of its pool and the engine call is bounded
\* (section 5 of the specification: a bounded frame wait or a blit), so no
\* call stays in progress forever; WorkerFinish(c) is enabled exactly when
\* InEngine(c) and ends it, so this is WF_vars(WorkerFinish(c)).
AsyncFairness ==
    \A c \in Callers :
      /\ WF_vars(CallerStep(c))
      /\ []<>(~InEngine(c))

AsyncSpec == Init /\ [][AsyncNext]_vars /\ AsyncFairness

\* ------------------------------------------------------------------ properties

\* The last call was a capture.
Captured == last.op = "capture"

\* The engine as the last call left it.
Engine == self

\* The region of the last call lies inside the cached display, by the exact
\* (unbounded) sums.
RegionInside(region) ==
    /\ region.x >= 0
    /\ region.y >= 0
    /\ region.width > 0
    /\ region.height > 0
    /\ region.x + region.width <= width
    /\ region.y + region.height <= height

\* The region has a negative corner or an empty side.
RegionDegenerate(region) ==
    region.x < 0 \/ region.y < 0 \/ region.width = 0 \/ region.height = 0

\* The engine holds a backend: DXGI resources, or the fallback flag.
HasBackend(e) == e.dxgi_resources \/ e.use_gdi_fallback

\* The result carries the region's size and that many pixels.
SizedFor(result, region) ==
    /\ result.width = region.width
    /\ result.height = region.height
    /\ Len(result.data) = region.width * region.height * 4

\* C1: every successful capture of a region inside the cached display
\* returns the region's width and height and width * height * 4 bytes,
\* whichever backend produced the full-frame buffer and however long it is.
C1_SizedOutput ==
    (Captured /\ last.result.tag = "Ok" /\ RegionInside(last.region))
        => SizedFor(last.result, last.region)

\* C2: a capture of a region with a negative corner or an empty side
\* returns InvalidRegion, calls no backend and leaves every field of the
\* engine as it was, in every engine state, the never-initialized one too.
C2_InvalidRegionTouchesNothing ==
    (Captured /\ RegionDegenerate(last.region))
        => /\ last.result.tag = "InvalidRegion"
           /\ Engine = last.pre
           /\ last.calls = NoCalls

\* C2 as amended: such a capture returns InvalidRegion and acquires no
\* frame, blits nothing and saves nothing; on an engine that holds a backend
\* it calls nothing and leaves every field as it was; on an engine that
\* holds none it initializes the engine first, exactly as init does.
C2_InvalidRegionAfterEnsure ==
    (Captured /\ RegionDegenerate(last.region))
        => /\ last.result.tag = "InvalidRegion"
           /\ last.calls.acquires = 0
           /\ last.calls.blits = 0
           /\ last.calls.saves = 0
           /\ HasBackend(last.pre) => (Engine = last.pre /\ last.calls = NoCalls)
           /\ ~HasBackend(last.pre) =>
                 /\ last.calls.dxgi_inits = 1
                 /\ \E dxgi_ok \in BOOLEAN : Engine = init(new, dxgi_ok).e

\* C2 witness: an initialized engine was asked for a degenerate region.
C2_Witness ==
    /\ Captured
    /\ RegionDegenerate(last.region)
    /\ last.pre.is_initialized
    /\ last.result.tag = "InvalidRegion"

\* C3: a capture of a region with x >= 0 whose exact right edge x + width
\* or bottom edge y + height lies beyond the cached display returns
\* InvalidRegion, for all word values of width and height.
C3_OutOfBoundsRejected ==
    (/\ Captured
     /\ last.region.x >= 0
     /\ \/ last.region.x + last.region.width > width
        \/ last.region.y + last.region.height > height)
        => last.result.tag = "InvalidRegion"

\* The last call ran a DXGI initialization that failed: init then queries
\* the fallback's screen size.
DxgiInitFailed == last.calls.dxgi_inits = 1 /\ last.calls.gdi_queries = 1

\* The engine before the last call was in fallback mode since a failed
\* DXGI initialization.
FallbackSinceInit(e) == e.is_initialized /\ e.use_gdi_fallback /\ ~e.dxgi_resources

\* The first two sentences of C4, which the code satisfies: a failed DXGI
\* initialization leaves the engine initialized, in fallback mode, with the
\* display size of the fallback query; a later capture of a region inside
\* the display makes one blit and no DXGI call.
C4_FallbackActivation ==
    /\ DxgiInitFailed =>
          /\ is_initialized
          /\ use_gdi_fallback
          /\ ~dxgi_resources
          /\ width = ScreenW
          /\ height = ScreenH
    /\ (Captured /\ FallbackSinceInit(last.pre) /\ RegionInside(last.region)) =>
          /\ last.calls.dxgi_inits = 0
          /\ last.calls.acquires = 0
          /\ last.calls.blits = 1

\* C4: after a failed DXGI initialization init leaves the engine
\* initialized in fallback mode with the display size populated, and every
\* later capture of a region inside the display uses GDI only and, when the
\* blit succeeds, returns CaptureData of the region's size.
C4_FallbackCaptureSucceeds ==
    /\ C4_FallbackActivation
    /\ (/\ Captured
        /\ FallbackSinceInit(last.pre)
        /\ RegionInside(last.region)
        /\ last.calls.blitted = 1) =>
          /\ last.result.tag = "Ok"
          /\ SizedFor(last.result, last.region)

\* C4 as amended: as C4, but when the blit succeeds the call returns
\* CaptureData of the region's size unless a save path was given and the
\* PNG save fails, which returns CaptureError.
C4_FallbackCaptureUnlessSaveFails ==
    /\ C4_FallbackActivation
    /\ (/\ Captured
        /\ FallbackSinceInit(last.pre)
        /\ RegionInside(last.region)
        /\ last.calls.blitted = 1) =>
          \/ /\ last.result.tag = "Ok"
             /\ SizedFor(last.result, last.region)
          \/ /\ last.save = "some"
             /\ last.calls.saves = 1
             /\ last.result.tag = "CaptureError"
             /\ last.result.msg = "save"

\* C4 witness: an engine in fallback mode since its failed initialization
\* captured a region through GDI.
C4_Witness ==
    /\ Captured
    /\ FallbackSinceInit(last.pre)
    /\ RegionInside(last.region)
    /\ last.calls.blitted = 1
    /\ last.result.tag = "Ok"
    /\ width = ScreenW
    /\ height = ScreenH

\* The last call made a DXGI acquisition that failed.
AcquisitionFailed == last.calls.acquires = 1 /\ last.calls.frames = 0

\* The retry policy of C5 without what the call returns after a blit that
\* succeeded: at most one acquisition and one blit per call; a failed
\* acquisition is followed by exactly one blit; a failed blit returns
\* CaptureError; in fallback mode no acquisition is made.
C5_RetryPolicy ==
    Captured =>
        /\ last.calls.acquires <= 1
        /\ last.calls.blits <= 1
        /\ AcquisitionFailed => last.calls.blits = 1
        /\ (last.calls.blits = 1 /\ last.calls.blitted = 0) =>
              last.result.tag = "CaptureError"
        /\ last.pre.use_gdi_fallback => last.calls.acquires = 0

\* C5: one capture call makes at most one accelerated acquisition and one
\* fallback blit; a failed acquisition is followed by exactly one blit,
\* whose success makes the call return Ok and whose failure CaptureError.
C5_OneRetryThenOk ==
    /\ C5_RetryPolicy
    /\ (Captured /\ AcquisitionFailed /\ last.calls.blitted = 1) =>
          last.result.tag = "Ok"

\* C5 as amended: as C5, but after a failed acquisition and a blit that
\* succeeded the call returns Ok or, when a save path was given, the
\* CaptureError of the PNG step.
C5_OneRetryThenOkUnlessSaveFails ==
    /\ C5_RetryPolicy
    /\ (Captured /\ AcquisitionFailed /\ last.calls.blitted = 1) =>
          \/ last.result.tag = "Ok"
          \/ /\ last.save = "some"
             /\ last.result.tag = "CaptureError"
             /\ last.result.msg \in { "save", "ImageBuffer::from_raw" }

\* C5 witness: an acquisition failed, the one blit that followed succeeded
\* and the call returned Ok.
C5_Witness ==
    /\ Captured
    /\ AcquisitionFailed
    /\ last.calls.blits = 1
    /\ last.calls.blitted = 1
    /\ last.result.tag = "Ok"

\* C6: once use_gdi_fallback is true it stays true through every later
\* init and capture call, and no later call attempts a DXGI initialization
\* or a DXGI frame acquisition.
C6_DemotionIrreversible ==
    last.pre.use_gdi_fallback =>
        /\ use_gdi_fallback
        /\ last.calls.dxgi_inits = 0
        /\ last.calls.acquires = 0

\* C6 witness: an engine demoted by a failed acquisition (it still holds
\* its DXGI resources) served a later capture through GDI.
C6_Witness ==
    /\ Captured
    /\ last.pre.use_gdi_fallback
    /\ last.pre.dxgi_resources
    /\ last.calls.blitted = 1
    /\ last.result.tag = "Ok"

\* C7: in capture_frame every successful AcquireNextFrame is followed by
\* exactly one ReleaseFrame before it returns, on every exit path, and a
\* failed AcquireNextFrame by none.
C7_FrameReleasedOnce ==
    Captured => last.calls.releases = last.calls.acquired

\* C8: init on an initialized engine returns Ok at once, attempts no
\* backend initialization and leaves every field of the engine unchanged.
C8_InitIdempotent ==
    (last.op = "init" /\ last.pre.is_initialized)
        => /\ last.result.tag = "Ok"
           /\ last.calls = NoCalls
           /\ Engine = last.pre

\* C8 witness: init was called on an initialized engine.
C8_Witness ==
    /\ last.op = "init"
    /\ last.pre.is_initialized
    /\ is_initialized

RegionRgba(region) ==
    [ i \in 1 .. (region.width * region.height * 4) |->
        LET p == (i - 1) \div 4
            r == region.y + (p \div region.width)
            c == region.x + (p % region.width)
        IN  ChannelValue(r, c, (i - 1) % 4) ]

\* C10: a successful capture of a region inside the display returns the
\* region's pixels in R, G, B, A order whichever backend served it, and
\* that buffer is what the PNG encoder is given when a save path is given.
C10_CanonicalChannelOrder ==
    (Captured /\ last.result.tag = "Ok" /\ RegionInside(last.region))
        => /\ last.result.data = RegionRgba(last.region)
           /\ last.save = "some" => last.saved = last.result.data

\* ------------------------------------------------------------------ GDI handles

\* The positions in the handle calls h of the call named call that
\* succeeded.
Positions(h, call) ==
    { i \in 1 .. Len(h) : h[i].call = call /\ h[i].ok }

\* The handle acquired by acquire is given back by release exactly once
\* when it was acquired, after its acquisition, and never otherwise.
ReleasedOnce(h, acquire, release) ==
    /\ Cardinality(Positions(h, release)) = Cardinality(Positions(h, acquire))
    /\ \A i \in Positions(h, release) :
         \E j \in Positions(h, acquire) : j < i

\* The previous selection is restored once for a selected bitmap, before
\* the bitmap is deleted and before the memory DC is deleted.
RestoredBeforeDelete(h) ==
    /\ ReleasedOnce(h, "SelectObject(bitmap)", "SelectObject(old_bitmap)")
    /\ \A i \in Positions(h, "DeleteObject") :
         \E j \in Positions(h, "SelectObject(old_bitmap)") : j < i

\* The last call ran capture_with_gdi.
Blitting == Captured /\ last.calls.blits = 1

\* C14: on every exit path of capture_with_gdi (failed screen DC, failed
\* memory DC, failed bitmap, failed BitBlt, failed GetDIBits, success) the
\* screen DC is released exactly once, the memory DC and the bitmap are
\* deleted exactly once, each only if and after it was acquired, and the
\* previous selection is restored before the bitmap is deleted.
C14_GdiHandlesReleased ==
    Blitting =>
        LET h == last.backend.handles IN
        /\ Len(h) > 0
        /\ h[1].call = "GetDC"
        /\ ReleasedOnce(h, "GetDC", "ReleaseDC")
        /\ ReleasedOnce(h, "CreateCompatibleDC", "DeleteDC")
        /\ ReleasedOnce(h, "CreateCompatibleBitmap", "DeleteObject")
        /\ RestoredBeforeDelete(h)

\* C14 happens: BitBlt failed with the screen DC, the memory DC and the
\* bitmap held and the bitmap selected, and the call returned the error.
C14_Witness ==
    /\ Blitting
    /\ last.result = Err("CaptureError", "BitBlt")
    /\ \E i \in 1 .. Len(last.backend.handles) :
         last.backend.handles[i] = GdiCall("BitBlt", FALSE)
    /\ Cardinality(Positions(last.backend.handles, "CreateCompatibleBitmap")) = 1

\* ------------------------------------------------------------------ extraction

\* The last call obtained a full-frame buffer from a backend.
GotFullFrame ==
    Captured /\ (last.calls.frames = 1 \/ last.calls.blitted = 1)

\* The pixels of the region of the last call, as (row, column) pairs.
RegionPixels ==
    (0 .. (last.region.height - 1)) \X (0 .. (last.region.width - 1))

\* The position in the output of byte k (1..4) of output pixel p.
OutputIndex(p, k) == (p[1] * last.region.width + p[2]) * BytesPerPixel + k

\* The position in the full-frame buffer of byte k of the source of output
\* pixel p, for rows row_bytes apart.
SourceIndex(p, k, row_bytes) ==
    (last.region.y + p[1]) * row_bytes
        + (last.region.x + p[2]) * BytesPerPixel + k

\* The full-frame buffer holds every row of the cached display at the row
\* pitch of its layout.
FullFrameComplete ==
    Len(last.backend.full) >= height * last.backend.row_pitch

\* C12: a successful capture of a region inside the display from a complete
\* full-frame buffer returns, for every output pixel (r, c), the 4 bytes of
\* the buffer at (region.y + r) * row_pitch + (region.x + c) * 4, for mapped
\* textures with row_pitch above width * 4 as for the fallback's rows.
C12_IndexedByRowPitch ==
    (/\ GotFullFrame
     /\ last.result.tag = "Ok"
     /\ RegionInside(last.region)
     /\ FullFrameComplete)
    => \A p \in RegionPixels, k \in 1 .. BytesPerPixel :
         /\ OutputIndex(p, k) <= Len(last.result.data)
         /\ SourceIndex(p, k, last.backend.row_pitch) <= Len(last.backend.full)
         /\ last.result.data[OutputIndex(p, k)]
              = last.backend.full[SourceIndex(p, k, last.backend.row_pitch)]

\* The full-frame buffer is shorter than the cached dimensions imply.
FullFrameShort ==
    Len(last.backend.full) < width * height * BytesPerPixel

\* C13: when the full-frame buffer is shorter than width * height * 4, the
\* capture of a region inside the display does not panic, and a successful
\* one returns width * height * 4 bytes of the region, each the buffer's byte
\* at the row's offset where that lies inside the buffer and 0 where it lies
\* beyond the buffer's end.
C13_ShortBufferZeroFilled ==
    (/\ GotFullFrame
     /\ RegionInside(last.region)
     /\ FullFrameShort)
    => /\ last.result.tag # "Panic"
       /\ last.result.tag = "Ok" =>
            /\ SizedFor(last.result, last.region)
            /\ \A p \in RegionPixels, k \in 1 .. BytesPerPixel :
                 LET src == SourceIndex(p, k, width * BytesPerPixel) IN
                 last.result.data[OutputIndex(p, k)]
                   = IF src <= Len(last.backend.full)
                     THEN last.backend.full[src]
                     ELSE 0

\* ------------------------------------------------------------------ async facade: serialization

\* The caller is between acquiring and releasing the lock.
InCriticalSection(c) == tasks[c].pc \in { "locked", "running", "finished" }

\* The caller's call has returned.
Returned(c) == tasks[c].pc = "done"

\* The caller's capture has ended with a CaptureData.
GotCaptureData(c) ==
    /\ tasks[c].pc \in { "finished", "done" }
    /\ tasks[c].op = "capture"
    /\ tasks[c].result.tag = "Ok"

\* At most one engine call is in progress, only under the lock, on an
\* engine nobody else changes meanwhile.
MutualExclusion ==
    /\ \A c, d \in Callers : (InEngine(c) /\ InEngine(d)) => c = d
    /\ \A c \in Callers : InCriticalSection(c) => lock = c
    /\ \A c \in Callers : InEngine(c) => tasks[c].pre = self

\* A CaptureData handed back has the size of the caller's own region and
\* the bytes extracted for that region from the call's own full-frame
\* buffer.
OwnCaptureData ==
    \A c \in Callers :
      GotCaptureData(c) =>
        /\ tasks[c].result.width = tasks[c].region.width
        /\ tasks[c].result.height = tasks[c].region.height
        /\ tasks[c].result.data = extract(tasks[c].full, self, tasks[c].region).data

\* Every caller's call has returned.
AllReturned == \A c \in Callers : Returned(c)

\* C11: the concurrent calls on one facade are serialized by its lock: never
\* two engine calls in progress at once, each CaptureData built from the
\* caller's own call and region, and every call eventually returns.
C11_SerializedAndComplete ==
    /\ [](MutualExclusion /\ OwnCaptureData)
    /\ <>AllReturned

\* C11 happens: every caller's capture has returned a CaptureData with
\* pixels, for regions that differ between two callers.
C11_Witness ==
    /\ \A c \in Callers :
         Returned(c) /\ GotCaptureData(c) /\ Len(tasks[c].result.data) > 0
    /\ \E c, d \in Callers : tasks[c].region # tasks[d].region

====
